---- MODULE Spec2Model ----
(***************************************************************************)
(* Model of vcf_converter: VCFInspector (inspector.py) and FileValidator   *)
(* (validator.py).                                                         *)
(*                                                                         *)
(* Text is a sequence of code points (Python str), file content a sequence *)
(* of bytes (0..255); ASCII bytes decode to the code point of the same     *)
(* value.  Indexes of the string helpers are 0-based, as in Python.        *)
(***************************************************************************)
EXTENDS Integers, Sequences, FiniteSets, TLC

(***************************************************************************)
(* Python str / bytes primitives used by the code                          *)
(***************************************************************************)

\* the characters str.strip() removes: \t \n \v \f \r, \x1c..\x1f and space
Whitespace == {9, 10, 11, 12, 13, 28, 29, 30, 31, 32}

RECURSIVE LStrip(_)
LStrip(s) ==
    IF s # <<>> /\ Head(s) \in Whitespace THEN LStrip(Tail(s)) ELSE s

RECURSIVE RStrip(_)
RStrip(s) ==
    IF s # <<>> /\ s[Len(s)] \in Whitespace
    THEN RStrip(SubSeq(s, 1, Len(s) - 1))
    ELSE s

\* str.strip()
Strip(s) == RStrip(LStrip(s))

\* str.startswith(p)
StartsWith(s, p) == Len(s) >= Len(p) /\ SubSeq(s, 1, Len(p)) = p

\* str.find(sub, start): lowest 0-based index >= start where sub occurs, else -1
RECURSIVE Find(_, _, _)
Find(s, sub, start) ==
    IF start + Len(sub) > Len(s) THEN -1
    ELSE IF SubSeq(s, start + 1, start + Len(sub)) = sub THEN start
    ELSE Find(s, sub, start + 1)

\* an index of a slice, normalised as Python does (negative counts from the end)
SliceIndex(i, n) ==
    IF i < 0 THEN (IF i + n < 0 THEN 0 ELSE i + n)
    ELSE (IF i > n THEN n ELSE i)

\* s[lo:hi]
Slice(s, lo, hi) ==
    LET a == SliceIndex(lo, Len(s))
        b == SliceIndex(hi, Len(s))
    IN  IF a >= b THEN <<>> ELSE SubSeq(s, a + 1, b)

\* str.split(sep) for a one-character separator
RECURSIVE Split(_, _)
Split(s, sep) ==
    LET k == Find(s, <<sep>>, 0)
    IN  IF k < 0 THEN <<s>>
        ELSE <<SubSeq(s, 1, k)>> \o Split(SubSeq(s, k + 2, Len(s)), sep)

(***************************************************************************)
(* inspector.py                                                            *)
(***************************************************************************)

META_PREFIX   == <<35, 35>>                                \* "##"
CHROM_PREFIX  == <<35, 67, 72, 82, 79, 77>>                \* "#CHROM"
CONTIG_TAG    == <<35, 35, 99, 111, 110, 116, 105, 103, 61>>   \* "##contig="
INFO_TAG      == <<35, 35, 73, 78, 70, 79, 61>>            \* "##INFO="
FORMAT_TAG    == <<35, 35, 70, 79, 82, 77, 65, 84, 61>>    \* "##FORMAT="
ID_KEY        == <<73, 68, 61>>                            \* "ID="
COMMA         == <<44>>                                    \* ","
GT            == <<62>>                                    \* ">"
TAB           == 9
FIXED_COLUMNS == 9

\* InspectionResult(file_path=...) with the dataclass defaults
InspectionResult ==
    [ sample_count      |-> 0,
      variant_count     |-> 0,
      contigs           |-> <<>>,
      info_fields       |-> <<>>,
      format_fields     |-> <<>>,
      header_line_count |-> 0 ]

\* the contig branch: value up to the next ",", else up to the next ">"
ContigId(line) ==
    LET start == Find(line, ID_KEY, 0)
        comma == Find(line, COMMA, start)
        end   == IF comma < 0 THEN Find(line, GT, start) ELSE comma
    IN  Slice(line, start + 3, end)

\* the INFO and FORMAT branches: value up to the next "," (find's -1 is used
\* as the slice end when there is none)
FieldId(line) ==
    LET start == Find(line, ID_KEY, 0)
        end   == Find(line, COMMA, start)
    IN  Slice(line, start + 3, end)

\* mutant of ListAppend: an ID already in the list is not added again
ListAppendUnique(list, x) ==
    IF \E i \in 1..Len(list) : list[i] = x THEN list ELSE Append(list, x)

\* list.append
ListAppend(list, x) == Append(list, x)

\* VCFInspector._parse_meta_line
ParseMetaLine(line, res) ==
    IF StartsWith(line, CONTIG_TAG) THEN
        IF Find(line, ID_KEY, 0) >= 0 /\ ContigId(line) # <<>>
        THEN [res EXCEPT !.contigs = ListAppend(@, ContigId(line))]
        ELSE res
    ELSE IF StartsWith(line, INFO_TAG) THEN
        IF Find(line, ID_KEY, 0) >= 0 /\ FieldId(line) # <<>>
        THEN [res EXCEPT !.info_fields = ListAppend(@, FieldId(line))]
        ELSE res
    ELSE IF StartsWith(line, FORMAT_TAG) THEN
        IF Find(line, ID_KEY, 0) >= 0 /\ FieldId(line) # <<>>
        THEN [res EXCEPT !.format_fields = ListAppend(@, FieldId(line))]
        ELSE res
    ELSE res


\* mutant of CountHeaderLine: the line is counted only while no header line was
CountHeaderLineOnce(res) ==
    [res EXCEPT !.header_line_count = IF @ = 0 THEN 1 ELSE @]

\* line 47/50: header_line_count += 1
CountHeaderLine(res) == [res EXCEPT !.header_line_count = @ + 1]

\* lines 51-53: cols = line.split("\t"); if len(cols) > 9: sample_count = len(cols) - 9
SetSampleCount(line, res) ==
    LET cols == Split(line, TAB)
    IN  IF Len(cols) > FIXED_COLUMNS
        THEN [res EXCEPT !.sample_count = Len(cols) - FIXED_COLUMNS]
        ELSE res

\* mutant of CountVariant: the test for a blank line is missing
CountVariantAnyLine(line, res) == [res EXCEPT !.variant_count = @ + 1]

\* lines 54-56: else: if line: variant_count += 1
CountVariant(line, res) ==
    IF line # <<>> THEN [res EXCEPT !.variant_count = @ + 1] ELSE res

(***************************************************************************)
(* validator.py                                                            *)
(***************************************************************************)

VCF_HEADER      == <<35, 35, 102, 105, 108, 101, 102, 111, 114, 109, 97, 116, 61, 86, 67, 70>>
                                                           \* "##fileformat=VCF"
PLINK_BED_MAGIC == <<108, 27, 1>>                          \* b"\x6c\x1b\x01"
MAGIC_LEN       == 3
VCF_SUFFIX      == <<46, 118, 99, 102>>                    \* ".vcf"
GZ_SUFFIX       == <<46, 103, 122>>                        \* ".gz"
BED_SUFFIX      == <<46, 98, 101, 100>>                    \* ".bed"
BIM_SUFFIX      == <<46, 98, 105, 109>>                    \* ".bim"
FAM_SUFFIX      == <<46, 102, 97, 109>>                    \* ".fam"
DOT             == 46
NL              == 10

\* ValidationReport(files_checked=n) with the dataclass defaults
ValidationReport(n) ==
    [ files_checked |-> n, valid |-> 0, invalid |-> <<>>, warnings |-> <<>> ]

\* ValidationReport.all_valid
AllValid(report) == Len(report.invalid) = 0

\* an entry of report.invalid: the message's fixed text, the path it names and,
\* for "Read error: {exc}", the exception it formats
Violation(kind, path, e) == [kind |-> kind, path |-> path, exc |-> e]

(* A node of the file system: missing, a directory, or a regular file with  *)
(* its bytes.  For a file opened through gzip, gz is the condition of the   *)
(* compressed stream and data the bytes it decompresses to.                 *)
MissingNode  == [kind |-> "missing", gz |-> "ok", data |-> <<>>]
DirNode      == [kind |-> "dir",     gz |-> "ok", data |-> <<>>]
FileNode(d)  == [kind |-> "file",    gz |-> "ok", data |-> d]
GzNode(g, d) == [kind |-> "file",    gz |-> g,    data |-> d]

NodeAt(fsys, name) == IF name \in DOMAIN fsys THEN fsys[name] ELSE MissingNode

\* Path.exists()
Exists(node) == node.kind # "missing"

\* Path.suffix of a path with no directory part: the text from the last "."
\* of the name, unless that "." is its first or its last character
RECURSIVE LastDot(_, _)
LastDot(name, i) ==
    IF i = 0 THEN 0 ELSE IF name[i] = DOT THEN i ELSE LastDot(name, i - 1)

Suffix(path) ==
    LET i == LastDot(path, Len(path))
    IN  IF 1 < i /\ i < Len(path) THEN SubSeq(path, i, Len(path)) ELSE <<>>

\* the exception classes that derive from OSError
OSErrors == {"OSError", "IsADirectoryError", "BadGzipFile"}

\* except (OSError, gzip.BadGzipFile)
Caught(e) == e \in OSErrors

\* fh.readline(): the text up to and including the first newline
ReadLine(text) ==
    LET k == Find(text, <<NL>>, 0)
    IN  IF k < 0 THEN text ELSE SubSeq(text, 1, k + 1)

\* open(path) / gzip.open(path, "rt") followed by fh.readline(): the line read,
\* or the exception raised.  The files are shorter than one read buffer, so the
\* first readline decodes all of the content.
ReadFirstLine(node, gzipped) ==
    IF node.kind = "dir" THEN [exc |-> "IsADirectoryError", line |-> <<>>]
    ELSE IF gzipped /\ node.gz = "notgzip" THEN [exc |-> "BadGzipFile", line |-> <<>>]
    ELSE IF gzipped /\ node.gz = "truncated" THEN [exc |-> "EOFError", line |-> <<>>]
    ELSE IF gzipped /\ node.gz = "corrupt" THEN [exc |-> "zlib.error", line |-> <<>>]
    ELSE IF \E i \in 1..Len(node.data) : node.data[i] >= 128
         THEN [exc |-> "UnicodeDecodeError", line |-> <<>>]
    ELSE [exc |-> "none", line |-> ReadLine(node.data)]

\* the outcome of a call: the report returned, or the exception that left it
Returned(report) == [exc |-> "none", report |-> report]
Raised(e)        == [exc |-> e, report |-> ValidationReport(0)]

\* FileValidator.validate_vcf
ValidateVcf(fsys, path) ==
    LET report == ValidationReport(1)
        node   == NodeAt(fsys, path)
        rd     == ReadFirstLine(node, Suffix(path) = GZ_SUFFIX)
    IN  IF ~Exists(node) THEN
            Returned([report EXCEPT
                !.invalid = Append(@, Violation("File not found", path, "none"))])
        ELSE IF rd.exc # "none" THEN
            IF Caught(rd.exc)
            THEN Returned([report EXCEPT
                    !.invalid = Append(@, Violation("Read error", <<>>, rd.exc))])
            ELSE Raised(rd.exc)
        ELSE IF StartsWith(Strip(rd.line), VCF_HEADER) THEN
            Returned([report EXCEPT !.valid = 1])
        ELSE
            Returned([report EXCEPT
                !.invalid = Append(@, Violation("Missing VCF header", path, "none"))])

\* lines 72-74: one "Missing .<label> file" entry per file that does not exist
MissingEntries(fsys, names) ==
    LET labels == <<"Missing .bed file", "Missing .bim file", "Missing .fam file">>
        Entry(k) == IF Exists(NodeAt(fsys, names[k]))
                    THEN <<>> ELSE <<Violation(labels[k], names[k], "none")>>
    IN  Entry(1) \o Entry(2) \o Entry(3)

\* mutant of MagicMatches: compares only the bytes that were read
MagicMatchesPrefix(magic) == SubSeq(PLINK_BED_MAGIC, 1, Len(magic)) = magic

\* line 79: magic == self.PLINK_BED_MAGIC
MagicMatches(magic) == magic = PLINK_BED_MAGIC

\* mutant of CompanionValid: counted without the test for existence
CompanionValidAlways(node) == 1

\* lines 83-86: a companion file counts as valid when it exists
CompanionValid(node) == IF Exists(node) THEN 1 ELSE 0

\* FileValidator.validate_plink_binary
ValidatePlinkBinary(fsys, prefix) ==
    LET bed     == prefix \o BED_SUFFIX
        bim     == prefix \o BIM_SUFFIX
        fam     == prefix \o FAM_SUFFIX
        report  == [ValidationReport(3) EXCEPT
                        !.invalid = MissingEntries(fsys, <<bed, bim, fam>>)]
        bedNode == NodeAt(fsys, bed)
        magic   == Slice(bedNode.data, 0, MAGIC_LEN)       \* fh.read(3)
        checked ==
            IF ~Exists(bedNode) THEN report
            ELSE IF MagicMatches(magic) THEN [report EXCEPT !.valid = @ + 1]
            ELSE [report EXCEPT
                    !.invalid = Append(@, Violation("Invalid .bed magic bytes", bed, "none"))]
    IN  IF bedNode.kind = "dir" THEN Raised("IsADirectoryError")    \* open(bed, "rb")
        ELSE Returned([checked EXCEPT
                !.valid = @ + CompanionValid(NodeAt(fsys, bim))
                            + CompanionValid(NodeAt(fsys, fam))])

\* line 95: path.suffix in (".vcf", ".gz")
IsTextPath(path) == Suffix(path) \in {VCF_SUFFIX, GZ_SUFFIX}

\* lines 99-102: fold a sub-report into the combined report
Combine(acc, sub) ==
    [ files_checked |-> acc.files_checked + sub.files_checked,
      valid         |-> acc.valid + sub.valid,
      invalid       |-> acc.invalid \o sub.invalid,
      warnings      |-> acc.warnings \o sub.warnings ]

(***************************************************************************)
(* Input files of the inspector: sequences of raw lines, each with its     *)
(* line terminator, as iterating the open file yields them                 *)
(***************************************************************************)

MaxLines == 3

\* "#CHROM" followed by n - 1 further tab-separated columns named "c"
RECURSIVE HeaderLine(_)
HeaderLine(n) == IF n <= 1 THEN CHROM_PREFIX ELSE HeaderLine(n - 1) \o <<TAB, 99>>

L_meta       == <<35, 35, 115, 111, 117, 114, 99, 101, 61, 116>>          \* "##source=t"
L_contig     == <<35, 35, 99, 111, 110, 116, 105, 103, 61, 60, 73, 68, 61, 49, 44,
                  108, 61, 53, 62>>                                        \* "##contig=<ID=1,l=5>"
L_contigLast == <<35, 35, 99, 111, 110, 116, 105, 103, 61, 60, 73, 68, 61, 50, 62>>
                                                                           \* "##contig=<ID=2>"
L_info       == <<35, 35, 73, 78, 70, 79, 61, 60, 73, 68, 61, 65, 67, 44, 78, 61, 65, 62>>
                                                                           \* "##INFO=<ID=AC,N=A>"
L_infoLast   == <<35, 35, 73, 78, 70, 79, 61, 60, 73, 68, 61, 68, 80, 62, 32, 120>>
                                                                           \* "##INFO=<ID=DP> x"
L_format     == <<35, 35, 70, 79, 82, 77, 65, 84, 61, 60, 73, 68, 61, 71, 84, 44, 78, 61, 49, 62>>
                                                                           \* "##FORMAT=<ID=GT,N=1>"
L_formatNoId == <<35, 35, 70, 79, 82, 77, 65, 84, 61, 60, 78, 61, 49, 62>> \* "##FORMAT=<N=1>"
L_indented   == <<32, 35, 35, 99, 111, 110, 116, 105, 103, 61, 60, 73, 68, 61, 49, 62>>
                                                                           \* " ##contig=<ID=1>"
L_data       == <<49, 9, 49, 48, 48>>                                      \* "1\t100"
L_blank      == <<32, 32>>                                                 \* "  "
L_hdr8       == HeaderLine(8)                   \* fewer than the 9 fixed columns
L_hdr9       == HeaderLine(9)                   \* the 9 fixed columns, no sample
L_hdr11      == HeaderLine(11)                  \* two samples
L_hdrTrail   == HeaderLine(9) \o <<TAB>>        \* 10 columns, the last one empty

RawLines ==
    { l \o <<NL>> : l \in { L_meta, L_contig, L_contigLast, L_info, L_infoLast,
                            L_format, L_formatNoId, L_indented, L_data, L_blank,
                            L_hdr8, L_hdr9, L_hdr11, L_hdrTrail } }

Files == UNION { [1..n -> RawLines] : n \in 0..MaxLines }

(***************************************************************************)
(* State                                                                   *)
(***************************************************************************)

VARIABLES
    file,       \* inspect: the lines of the file being read
    pos,        \* inspect: index of the next line the for loop yields
    result,     \* inspect: the InspectionResult being filled
    ipc,        \* inspect: "idle", "reading" or "done"
    fs,         \* validator: the file system, file name -> node
    call,       \* validator: the call under way, [fn, paths]
    idx,        \* validate_batch: index of the next path of the loop
    combined,   \* validate_batch: the report being accumulated
    ret,        \* validator: the report returned
    exc,        \* validator: the exception that left the call, or "none"
    vpc         \* validator: "idle", "running", "returned" or "raised"

vars == <<file, pos, result, ipc, fs, call, idx, combined, ret, exc, vpc>>

insVars == <<file, pos, result, ipc>>
valVars == <<fs, call, idx, combined, ret, exc, vpc>>

(***************************************************************************)
(* VCFInspector.inspect: one action per branch of the loop body            *)
(***************************************************************************)

ValidatorIdle ==
    /\ fs = <<>>
    /\ call = [fn |-> "none", paths |-> <<>>]
    /\ idx = 1
    /\ combined = ValidationReport(0)
    /\ ret = ValidationReport(0)
    /\ exc = "none"
    /\ vpc = "idle"

InitInspect ==
    /\ file \in Files
    /\ pos = 1
    /\ result = InspectionResult
    /\ ipc = "reading"
    /\ ValidatorIdle

\* line = line.strip()
CurrentLine == Strip(file[pos])

InspectMeta ==
    /\ ipc = "reading" /\ pos <= Len(file)
    /\ StartsWith(CurrentLine, META_PREFIX)
    /\ result' = ParseMetaLine(CurrentLine, CountHeaderLine(result))
    /\ pos' = pos + 1
    /\ UNCHANGED <<file, ipc, valVars>>

InspectColumnHeader ==
    /\ ipc = "reading" /\ pos <= Len(file)
    /\ ~StartsWith(CurrentLine, META_PREFIX)
    /\ StartsWith(CurrentLine, CHROM_PREFIX)
    /\ result' = SetSampleCount(CurrentLine, CountHeaderLine(result))
    /\ pos' = pos + 1
    /\ UNCHANGED <<file, ipc, valVars>>

InspectData ==
    /\ ipc = "reading" /\ pos <= Len(file)
    /\ ~StartsWith(CurrentLine, META_PREFIX)
    /\ ~StartsWith(CurrentLine, CHROM_PREFIX)
    /\ result' = CountVariant(CurrentLine, result)
    /\ pos' = pos + 1
    /\ UNCHANGED <<file, ipc, valVars>>

InspectReturn ==
    /\ ipc = "reading" /\ pos > Len(file)
    /\ ipc' = "done"
    /\ UNCHANGED <<file, pos, result, valVars>>

NextInspect ==
    \/ InspectMeta
    \/ InspectColumnHeader
    \/ InspectData
    \/ InspectReturn

SpecInspect == InitInspect /\ [][NextInspect]_vars

(***************************************************************************)
(* Inputs of the validator: paths, and the nodes found at the files they   *)
(* name.  A name the file system does not list is a missing file.          *)
(***************************************************************************)

MaxPaths  == 2      \* longest list given to validate_batch
MaxBedLen == 3      \* longest .bed content enumerated byte by byte

A_VCF == <<97, 46, 118, 99, 102>>           \* "a.vcf"
B_GZ  == <<98, 46, 103, 122>>               \* "b.gz"
P     == <<112>>                            \* "p", a PLINK prefix
Q_TXT == <<113, 46, 116, 120, 116>>         \* "q.txt", no file of it exists

Paths == {A_VCF, B_GZ, P, Q_TXT}

PathLists == UNION { [1..n -> Paths] : n \in 0..MaxPaths }

T_good       == <<35, 35, 102, 105, 108, 101, 102, 111, 114, 109, 97, 116, 61, 86, 67, 70,
                  118, 52, 10, 35, 67, 72, 82, 79, 77, 10>>   \* "##fileformat=VCFv4\n#CHROM\n"
T_goodOther  == <<35, 35, 102, 105, 108, 101, 102, 111, 114, 109, 97, 116, 61, 86, 67, 70,
                  118, 52, 10, 120, 10>>                      \* "##fileformat=VCFv4\nx\n"
T_goodBadEnd == <<35, 35, 102, 105, 108, 101, 102, 111, 114, 109, 97, 116, 61, 86, 67, 70,
                  118, 52, 10, 255, 10>>                      \* "##fileformat=VCFv4\n\xff\n"
T_bad        == <<110, 111, 116, 32, 97, 32, 118, 99, 102, 10>>   \* "not a vcf\n"
T_indented   == <<32, 35, 35, 102, 105, 108, 101, 102, 111, 114, 109, 97, 116, 61, 86, 67, 70,
                  10>>                                        \* " ##fileformat=VCF\n"
T_blankFirst == <<10, 35, 35, 102, 105, 108, 101, 102, 111, 114, 109, 97, 116, 61, 86, 67, 70,
                  10>>                                        \* "\n##fileformat=VCF\n"
T_undecodable == <<255, 10>>                                  \* "\xff\n"

\* what may stand at a.vcf
VcfNodes ==
    {MissingNode, DirNode} \cup
    { FileNode(d) : d \in {<<>>, T_good, T_goodOther, T_goodBadEnd, T_bad,
                           T_indented, T_blankFirst, T_undecodable} }

\* what may stand at b.gz
GzNodes ==
    {MissingNode, GzNode("notgzip", T_bad), GzNode("truncated", <<>>),
     GzNode("corrupt", <<>>), GzNode("ok", T_good), GzNode("ok", T_bad),
     GzNode("ok", T_undecodable)}

BedBytes == {108, 27, 1, 0}

BedContents == UNION { [1..n -> BedBytes] : n \in 0..MaxBedLen }

\* what may stand at p.bed in the general file system
BedNodes ==
    {MissingNode, DirNode} \cup
    { FileNode(d) : d \in {<<>>, <<108, 27>>, <<108, 27, 1>>, <<108, 27, 1, 0>>,
                           <<108, 27, 2>>, <<1, 27, 108>>} }

\* what may stand at p.bim and at p.fam
CompanionNodes == {MissingNode, FileNode(<<120, 10>>)}

FileSystem(vcf, gz, bed, bim, fam) ==
    (A_VCF :> vcf) @@ (B_GZ :> gz) @@ ((P \o BED_SUFFIX) :> bed)
        @@ ((P \o BIM_SUFFIX) :> bim) @@ ((P \o FAM_SUFFIX) :> fam)

Calls ==
    { [fn |-> f, paths |-> <<q>>] : f \in {"validate_vcf", "validate_plink_binary"}, q \in Paths }
    \cup { [fn |-> "validate_batch", paths |-> l] : l \in PathLists }

InspectorIdle ==
    /\ file = <<>>
    /\ pos = 1
    /\ result = InspectionResult
    /\ ipc = "idle"

ValidatorStart ==
    /\ idx = 1
    /\ combined = ValidationReport(0)
    /\ ret = ValidationReport(0)
    /\ exc = "none"
    /\ vpc = "running"

\* any call of the validator on any of the file systems
InitValidate ==
    /\ \E vcf \in VcfNodes, gz \in GzNodes, bed \in BedNodes,
          bim \in CompanionNodes, fam \in CompanionNodes :
            fs = FileSystem(vcf, gz, bed, bim, fam)
    /\ call \in Calls
    /\ ValidatorStart
    /\ InspectorIdle

\* validate_plink_binary("p") on every state of the triad in which each file is
\* missing or a regular file, the .bed with every content up to MaxBedLen bytes
InitTriad ==
    /\ \E bed \in {MissingNode} \cup { FileNode(d) : d \in BedContents },
          bim \in CompanionNodes, fam \in CompanionNodes :
            fs = FileSystem(MissingNode, MissingNode, bed, bim, fam)
    /\ call = [fn |-> "validate_plink_binary", paths |-> <<P>>]
    /\ ValidatorStart
    /\ InspectorIdle

\* a call ends: it returns its report or the exception leaves it
Finish(outcome) ==
    /\ vpc' = IF outcome.exc = "none" THEN "returned" ELSE "raised"
    /\ exc' = outcome.exc
    /\ ret' = outcome.report

CallValidateVcf ==
    /\ vpc = "running" /\ call.fn = "validate_vcf"
    /\ Finish(ValidateVcf(fs, call.paths[1]))
    /\ UNCHANGED <<fs, call, idx, combined, insVars>>

CallValidatePlinkBinary ==
    /\ vpc = "running" /\ call.fn = "validate_plink_binary"
    /\ Finish(ValidatePlinkBinary(fs, call.paths[1]))
    /\ UNCHANGED <<fs, call, idx, combined, insVars>>

\* one iteration of validate_batch's loop with sub-call outcome sub
BatchIteration(sub) ==
    IF sub.exc = "none"
    THEN /\ combined' = Combine(combined, sub.report)
         /\ idx' = idx + 1
         /\ UNCHANGED <<ret, exc, vpc>>
    ELSE /\ Finish(sub)
         /\ UNCHANGED <<combined, idx>>

BatchValidateVcf ==
    /\ vpc = "running" /\ call.fn = "validate_batch"
    /\ idx <= Len(call.paths)
    /\ IsTextPath(call.paths[idx])
    /\ BatchIteration(ValidateVcf(fs, call.paths[idx]))
    /\ UNCHANGED <<fs, call, insVars>>

BatchValidatePlinkBinary ==
    /\ vpc = "running" /\ call.fn = "validate_batch"
    /\ idx <= Len(call.paths)
    /\ ~IsTextPath(call.paths[idx])
    /\ BatchIteration(ValidatePlinkBinary(fs, call.paths[idx]))
    /\ UNCHANGED <<fs, call, insVars>>

BatchReturn ==
    /\ vpc = "running" /\ call.fn = "validate_batch"
    /\ idx > Len(call.paths)
    /\ Finish(Returned(combined))
    /\ UNCHANGED <<fs, call, idx, combined, insVars>>

NextValidate ==
    \/ CallValidateVcf
    \/ CallValidatePlinkBinary
    \/ BatchValidateVcf
    \/ BatchValidatePlinkBinary
    \/ BatchReturn

SpecValidate == InitValidate /\ [][NextValidate]_vars

NextTriad == CallValidatePlinkBinary

SpecTriad == InitTriad /\ [][NextTriad]_vars

(***************************************************************************)
(* Properties of inspect                                                   *)
(***************************************************************************)

InspectDone == ipc = "done"

\* classification of line k of the file, after trimming surrounding whitespace
MetaLineAt(k)   == StartsWith(Strip(file[k]), META_PREFIX)
HeaderLineAt(k) == ~MetaLineAt(k) /\ StartsWith(Strip(file[k]), CHROM_PREFIX)
BlankLineAt(k)  == Strip(file[k]) = <<>>
DataLineAt(k)   == ~MetaLineAt(k) /\ ~HeaderLineAt(k) /\ ~BlankLineAt(k)

Read == 1..(pos - 1)            \* the lines the loop has consumed
HeaderLines == { k \in 1..Len(file) : HeaderLineAt(k) }
FirstHeader == CHOOSE k \in HeaderLines : \A j \in HeaderLines : k <= j

\* C5 as stated: variant_count is the number of non-blank lines strictly after
\* the column-header line (checked on the files that have such a line).
C5_AsStated ==
    (InspectDone /\ HeaderLines # {}) =>
        result.variant_count =
            Cardinality({ k \in 1..Len(file) : k > FirstHeader /\ ~BlankLineAt(k) })

\* C5 (amended): variant_count is the number of lines read so far that, once
\* trimmed, are non-blank and begin with neither "##" nor "#CHROM", wherever
\* they stand relative to a column-header line.
C5_VariantCount ==
    result.variant_count = Cardinality({ k \in Read : DataLineAt(k) })

\* a finished inspection of a file with a data line before a column-header line
C5_Witness ==
    /\ InspectDone
    /\ \E k, j \in 1..Len(file) : k < j /\ DataLineAt(k) /\ HeaderLineAt(j)
    /\ result.variant_count > 0

\* C6 as stated: header_line_count is the number of "##" lines plus 1 if the
\* file has at least one "#CHROM" line.
C6_AsStated ==
    InspectDone =>
        result.header_line_count =
            Cardinality({ k \in 1..Len(file) : MetaLineAt(k) })
            + (IF HeaderLines = {} THEN 0 ELSE 1)

\* C6 (amended): header_line_count is the number of "##" lines plus the number
\* of "#CHROM" lines read so far (lines classified after trimming).
C6_HeaderLineCount ==
    result.header_line_count =
        Cardinality({ k \in Read : MetaLineAt(k) })
        + Cardinality({ k \in Read : HeaderLineAt(k) })

\* a finished inspection of a file with a meta-line and two "#CHROM" lines
C6_Witness ==
    /\ InspectDone
    /\ Cardinality(HeaderLines) = 2
    /\ \E k \in 1..Len(file) : MetaLineAt(k)

\* the column count of a raw line as it stands in the file: one more than its
\* number of tabs
ColumnCount(raw) == Cardinality({ i \in 1..Len(raw) : raw[i] = TAB }) + 1

\* C7: for a file with one column-header line of c tab-separated columns,
\* sample_count = max(0, c - 9).
C7_SampleCount ==
    (InspectDone /\ Cardinality(HeaderLines) = 1) =>
        LET c == ColumnCount(file[FirstHeader])
        IN  result.sample_count = IF c > FIXED_COLUMNS THEN c - FIXED_COLUMNS ELSE 0

\* the entry a line adds to the list of tag: the extracted ID, if the line
\* carries the tag, contains "ID=" and the ID is not empty
EntryOf(tag, line) ==
    LET id == IF tag = CONTIG_TAG THEN ContigId(line) ELSE FieldId(line)
    IN  IF StartsWith(line, tag) /\ Find(line, ID_KEY, 0) >= 0 /\ id # <<>>
        THEN <<id>> ELSE <<>>

RECURSIVE EntriesUpTo(_, _)
EntriesUpTo(tag, n) ==
    IF n = 0 THEN <<>> ELSE EntriesUpTo(tag, n - 1) \o EntryOf(tag, Strip(file[n]))

\* the lines read so far that carry tag and contain "ID="
WithId(tag) ==
    { k \in Read : StartsWith(Strip(file[k]), tag) /\ Find(Strip(file[k]), ID_KEY, 0) >= 0 }

\* C8: a contig/INFO/FORMAT line without "ID=" adds no entry, and each list
\* holds the extracted IDs of its tag's lines in file order, repeats kept.
C8_ListsInOrder ==
    /\ result.contigs       = EntriesUpTo(CONTIG_TAG, pos - 1)
    /\ result.info_fields   = EntriesUpTo(INFO_TAG, pos - 1)
    /\ result.format_fields = EntriesUpTo(FORMAT_TAG, pos - 1)
    /\ Len(result.contigs)       <= Cardinality(WithId(CONTIG_TAG))
    /\ Len(result.info_fields)   <= Cardinality(WithId(INFO_TAG))
    /\ Len(result.format_fields) <= Cardinality(WithId(FORMAT_TAG))

\* a finished inspection with a repeated contig ID and a FORMAT line without "ID="
C8_Witness ==
    /\ InspectDone
    /\ Len(result.contigs) = 2 /\ result.contigs[1] = result.contigs[2]
    /\ result.format_fields = <<>>
    /\ \E k \in 1..Len(file) :
          /\ StartsWith(Strip(file[k]), FORMAT_TAG)
          /\ Find(Strip(file[k]), ID_KEY, 0) < 0

\* the ID the stated rule selects: the text after "ID=" up to the next ",",
\* or up to the closing ">" when no "," comes before it
RuleId(line) ==
    LET start == Find(line, ID_KEY, 0)
        comma == Find(line, COMMA, start)
        close == Find(line, GT, start)
        end   == IF comma >= 0 /\ (close < 0 \/ comma < close) THEN comma
                 ELSE IF close >= 0 THEN close ELSE Len(line)
    IN  SubSeq(line, start + 4, end)

RECURSIVE RuleEntries(_, _)
RuleEntries(tag, n) ==
    IF n = 0 THEN <<>>
    ELSE LET line == Strip(file[n])
         IN  RuleEntries(tag, n - 1) \o
             (IF StartsWith(line, tag) /\ Find(line, ID_KEY, 0) >= 0 /\ RuleId(line) # <<>>
              THEN <<RuleId(line)>> ELSE <<>>)

\* C9: for every contig, INFO or FORMAT line containing "ID=", the value
\* appended is the one the stated rule selects, the same for the three tags.
C9_ExtractionRule ==
    InspectDone =>
        /\ result.contigs       = RuleEntries(CONTIG_TAG, Len(file))
        /\ result.info_fields   = RuleEntries(INFO_TAG, Len(file))
        /\ result.format_fields = RuleEntries(FORMAT_TAG, Len(file))

(***************************************************************************)
(* Properties of the validator                                             *)
(***************************************************************************)

Finished == vpc \in {"returned", "raised"}

BedNode == NodeAt(fs, P \o BED_SUFFIX)
BimNode == NodeAt(fs, P \o BIM_SUFFIX)
FamNode == NodeAt(fs, P \o FAM_SUFFIX)

\* C1: on every state of the triad (each file missing or present, the .bed
\* with any content), validate_plink_binary returns a report with
\* files_checked = 3 whose all_valid is true exactly when the three files
\* exist and the .bed begins with the bytes 0x6C 0x1B 0x01.
C1_TriadAllValid ==
    Finished =>
        /\ vpc = "returned"
        /\ ret.files_checked = 3
        /\ AllValid(ret) <=>
              /\ Exists(BedNode) /\ Exists(BimNode) /\ Exists(FamNode)
              /\ Len(BedNode.data) >= 3
              /\ BedNode.data[1] = 108 /\ BedNode.data[2] = 27 /\ BedNode.data[3] = 1

\* the call returned an all-valid report for a complete triad
C1_Witness ==
    /\ vpc = "returned"
    /\ AllValid(ret) /\ ret.valid = 3
    /\ Exists(BimNode) /\ Exists(FamNode) /\ Len(BedNode.data) >= 3

\* C2: validate_vcf, validate_plink_binary and validate_batch always end by
\* returning a report; no exception reaches the caller.
C2_NeverRaises == vpc # "raised"

\* C3: validate_vcf returns a report with files_checked = 1; valid = 1 and no
\* violation exactly when the file exists, is readable and its first line
\* begins with the signature; otherwise valid = 0 and exactly one violation,
\* not-found, read-error or signature-mismatch by its cause.  Only the first
\* line counts.
C3_VcfReport ==
    (call.fn = "validate_vcf" /\ Finished) =>
        LET path      == call.paths[1]
            node      == NodeAt(fs, path)
            firstLine == ReadLine(node.data)
            readFails ==
                \/ node.kind = "dir"
                \/ Suffix(path) = GZ_SUFFIX /\ node.gz # "ok"
                \/ \E i \in 1..Len(firstLine) : firstLine[i] >= 128
            OneViolation(kind) ==
                /\ ret.valid = 0
                /\ Len(ret.invalid) = 1
                /\ ret.invalid[1].kind = kind
        IN  /\ vpc = "returned"
            /\ ret.files_checked = 1
            /\ IF ~Exists(node) THEN OneViolation("File not found")
               ELSE IF readFails THEN OneViolation("Read error")
               ELSE IF StartsWith(firstLine, VCF_HEADER)
                    THEN ret.valid = 1 /\ ret.invalid = <<>>
               ELSE OneViolation("Missing VCF header")

\* the sub-report of one path of a batch, by the dispatch on the suffix
SubOutcome(path) ==
    IF Suffix(path) = VCF_SUFFIX \/ Suffix(path) = GZ_SUFFIX
    THEN ValidateVcf(fs, path)
    ELSE ValidatePlinkBinary(fs, path)

\* the sum and the concatenation of a field over the sub-reports of the first
\* n paths of the batch
RECURSIVE SumField(_, _)
SumField(fld, n) ==
    IF n = 0 THEN 0 ELSE SumField(fld, n - 1) + SubOutcome(call.paths[n]).report[fld]

RECURSIVE ConcatField(_, _)
ConcatField(fld, n) ==
    IF n = 0 THEN <<>> ELSE ConcatField(fld, n - 1) \o SubOutcome(call.paths[n]).report[fld]

\* C4: for every list of paths validate_batch returns the in-order aggregation
\* of the per-path sub-reports: the counts summed, the lists concatenated.
C4_BatchAggregates ==
    (call.fn = "validate_batch" /\ Finished) =>
        LET n == Len(call.paths)
        IN  /\ vpc = "returned"
            /\ ret.files_checked = SumField("files_checked", n)
            /\ ret.valid         = SumField("valid", n)
            /\ ret.invalid       = ConcatField("invalid", n)
            /\ ret.warnings      = ConcatField("warnings", n)

\* C10: every report returned satisfies valid + number of violations =
\* files_checked; so does the report a batch has accumulated so far.
C10_EachFileOnce ==
    /\ vpc = "returned" => ret.valid + Len(ret.invalid) = ret.files_checked
    /\ combined.valid + Len(combined.invalid) = combined.files_checked

\* a triad with the .bed missing and both companions present: one violation
\* and valid = 2
C10_Witness ==
    /\ vpc = "returned" /\ call.fn = "validate_plink_binary" /\ call.paths = <<P>>
    /\ ~Exists(BedNode) /\ Exists(BimNode) /\ Exists(FamNode)
    /\ ret.valid = 2 /\ Len(ret.invalid) = 1 /\ ret.files_checked = 3

====
